---- MODULE Spec2Model ----
(***************************************************************************)
(* midas-rs: the partitioned columnar ingestion pipeline.                  *)
(*   src/src/product.rs   Column buffers, Columns (Row Accumulator),       *)
(*                        Product (Symbol Writer) and the row normalizer   *)
(*   src/src/splitter.rs  get_symbol and DownloadArgs::download_impl       *)
(*                        (Stream Router)                                  *)
(*   src/src/lib.rs       par_download (Job Fan-out)                       *)
(* A line is a sequence of one-character strings, so that split, the tag   *)
(* test and the numeric parsers are computed character by character.       *)
(***************************************************************************)
EXTENDS Integers, Sequences, FiniteSets, TLC

VARIABLES
    pc,        \* where the run is: "Running", then "Completed", "Failed" or
               \* "Panicked" (download_impl); "Dropped" (a Product driven
               \* directly); "Input"/"Output" (a function applied to a line);
               \* "Fanout" (par_download calls, whose state is in fan)
    capacity,  \* DownloadArgs::capacity
    skip,      \* DownloadArgs::skip
    consumed,  \* the lines row_iter has yielded so far, in arrival order
    products,  \* the HashMap<String, Product> of download_impl
    world,     \* the files written, and the record of the calls on them
    line,      \* the row last given to the function or push under study
    out,       \* what it returned; in a run, the cause of its failure
    fan        \* par_download: rayon's global pool, the jobs of the call
               \* in progress and its workers, the results of the calls

vars == <<pc, capacity, skip, consumed, products, world, line, out, fan>>

(***************************************************************************)
(* Bounds of the model.                                                    *)
(***************************************************************************)
\* longest input stream of one Stream Router run
MaxLines == 4
\* largest per-symbol capacity of a job
MaxCap == 2
\* longest line body (after the 2-character tag) given to the normalizer
MaxBody == 15
\* longest line given to get_symbol
MaxSymLine == 12
\* largest number of jobs given to one par_download call
MaxJobs == 3
\* largest n_workers given to a par_download call
MaxBudget == 2
\* number of par_download calls made by one process
MaxCalls == 2

(***************************************************************************)
(* Program constants.                                                      *)
(***************************************************************************)
\* type Row<'a> = [&'a str; 15]
NCols == 15
\* get_symbol: .skip(5).next()
SymSkip == 5
\* row.get(0..2)
TagLen == 2

None == "None"
\* Option<BatchedWriter<File>>: None, or Some(writer) at file offset pos
NoWriter == [open |-> FALSE, pos |-> 0]
SomeWriter(pos) == [open |-> TRUE, pos |-> pos]

\* the process before any par_download call: pool = 0 says that rayon's
\* global thread pool is not built yet
Fan0 ==
    [pool |-> 0, calls |-> 0, phase |-> "idle", budget |-> 0,
     jobs |-> <<>>, runs |-> <<>>, workers |-> <<>>, full |-> FALSE,
     panicked |-> FALSE,
     files |-> [k \in {} |-> "none"], result |-> [kind |-> "none", job |-> 0]]

(***************************************************************************)
(* str helpers.                                                            *)
(***************************************************************************)
Space == " "
Underscore == "_"

\* the least index of s that holds c, 0 when there is none
RECURSIVE FindFrom(_, _, _)
FindFrom(s, c, i) ==
    IF i > Len(s) THEN 0
    ELSE IF s[i] = c THEN i
    ELSE FindFrom(s, c, i + 1)

\* str::split(" "): the fields between single space characters; a line
\* with no space is one field, and adjacent spaces delimit empty fields
RECURSIVE split(_)
split(s) ==
    LET i == FindFrom(s, Space, 1) IN
    IF i = 0 THEN <<s>>
    ELSE <<SubSeq(s, 1, i - 1)>> \o split(SubSeq(s, i + 1, Len(s)))

\* String::replace("_", ""): s without its underscore characters
RECURSIVE replace_underscore(_)
replace_underscore(s) ==
    IF s = <<>> THEN <<>>
    ELSE IF Head(s) = Underscore THEN replace_underscore(Tail(s))
    ELSE <<Head(s)>> \o replace_underscore(Tail(s))

get_symbol_keep(row) ==
    LET f == split(row) IN
    IF Len(f) <= SymSkip THEN [kind |-> "panic"]
    ELSE [kind |-> "ok", val |-> f[SymSkip + 1]]

\* get_symbol: the 6th field of the split on " ", underscores removed;
\* next() is None and unwrap() panics when there are fewer than 6 fields
get_symbol(row) ==
    LET f == split(row) IN
    IF Len(f) <= SymSkip THEN [kind |-> "panic"]
    ELSE [kind |-> "ok", val |-> replace_underscore(f[SymSkip + 1])]

TagQuote == <<"F", "@">>
TagTrade == <<"F", "T">>

\* Vec::swap(i, j) with 0-based indices, defined when both are in range
swap(v, i, j) ==
    [k \in 1..Len(v) |-> IF k = i + 1 THEN v[j + 1]
                         ELSE IF k = j + 1 THEN v[i + 1]
                         ELSE v[k]]

\* v[i] = x with a 0-based index, defined when it is in range
set_at(v, i, x) == [v EXCEPT ![i + 1] = x]

parse_quote_atleast(row) ==
    LET f == split(row) IN
    IF Len(f) >= NCols THEN [kind |-> "ok", row |-> SubSeq(f, 1, NCols)]
    ELSE [kind |-> "err"]

\* Product::parse_quote: the split, accepted when it has exactly 15 fields
parse_quote(row) ==
    LET f == split(row) IN
    IF Len(f) = NCols THEN [kind |-> "ok", row |-> f]
    ELSE [kind |-> "err"]

parse_trade_swapped(row) ==
    LET f == split(row) \o << <<Space>>, <<Space>> >> IN
    IF Len(f) < 12 THEN [kind |-> "panic"]
    ELSE LET d == set_at(set_at(swap(swap(f, 7, 8), 6, 7), 10, <<"0">>),
                         11, <<"0">>)
         IN IF Len(d) = NCols THEN [kind |-> "ok", row |-> d]
            ELSE [kind |-> "err"]

\* Product::parse_trade: two " " fields appended, swap(6,7), swap(7,8),
\* fields 10 and 11 set to "0"; an index past the end of the Vec panics;
\* the result is accepted when it has exactly 15 fields
parse_trade(row) ==
    LET f == split(row) \o << <<Space>>, <<Space>> >>
        n == Len(f)
    IN
    IF ~(6 < n /\ 7 < n) THEN [kind |-> "panic"]
    ELSE IF ~(7 < n /\ 8 < n) THEN [kind |-> "panic"]
    ELSE IF ~(10 < n) THEN [kind |-> "panic"]
    ELSE IF ~(11 < n) THEN [kind |-> "panic"]
    ELSE LET a == swap(f, 6, 7)
             b == swap(a, 7, 8)
             c == set_at(b, 10, <<"0">>)
             d == set_at(c, 11, <<"0">>)
         IN IF Len(d) = NCols THEN [kind |-> "ok", row |-> d]
            ELSE [kind |-> "err"]

(***************************************************************************)
(* Numeric parsing (str::parse through FromStr).  The fields of the        *)
(* bounded inputs have at most 9 digits, so every value is below 2^32      *)
(* and 2^64 and the overflow error of the integer parsers is not met.      *)
(***************************************************************************)
Digits == {"0", "1", "2", "3", "4", "5", "6", "7", "8", "9"}

DigitVal(c) ==
    CASE c = "0" -> 0 [] c = "1" -> 1 [] c = "2" -> 2 [] c = "3" -> 3
      [] c = "4" -> 4 [] c = "5" -> 5 [] c = "6" -> 6 [] c = "7" -> 7
      [] c = "8" -> 8 [] c = "9" -> 9

RECURSIVE DecVal(_)
DecVal(s) ==
    IF s = <<>> THEN 0
    ELSE 10 * DecVal(SubSeq(s, 1, Len(s) - 1)) + DigitVal(s[Len(s)])

AllDigits(s) == \A i \in 1..Len(s) : s[i] \in Digits

\* u64::from_str / u32::from_str: an optional "+", then one or more digits
parse_uint(entry) ==
    LET d == IF entry # <<>> /\ entry[1] = "+" THEN Tail(entry) ELSE entry IN
    IF d # <<>> /\ AllDigits(d) THEN [ok |-> TRUE, val |-> DecVal(d)]
    ELSE [ok |-> FALSE]

\* f32::from_str on a decimal literal: an optional sign, digits with at
\* most one "." among them and at least one digit; the value is kept as
\* sign, digits and number of fraction digits.  Exponents and inf/nan use
\* letters that the bounded inputs do not contain in numeric fields.
parse_f32(entry) ==
    LET signed == entry # <<>> /\ entry[1] \in {"+", "-"}
        d == IF signed THEN Tail(entry) ELSE entry
        dot == FindFrom(d, ".", 1)
        ip == IF dot = 0 THEN d ELSE SubSeq(d, 1, dot - 1)
        fp == IF dot = 0 THEN <<>> ELSE SubSeq(d, dot + 1, Len(d))
    IN
    IF AllDigits(ip) /\ AllDigits(fp) /\ Len(ip) + Len(fp) > 0
    THEN [ok |-> TRUE,
          val |-> [neg |-> signed /\ entry[1] = "-",
                   num |-> DecVal(ip \o fp), scale |-> Len(fp)]]
    ELSE [ok |-> FALSE]

(***************************************************************************)
(* Column buffers.                                                         *)
(***************************************************************************)
\* define_columns!: the type of each column, by row index 0..14
ColKind ==
    <<"cat", "u64", "u32", "u32", "cat", "cat", "u32", "f32",
      "cat", "cat", "u32", "f32", "cat", "cat", "cat">>

Categorical_with_capacity == [cached |-> {}, inner |-> <<>>, len |-> 0]

\* Categorical::push: intern the entry, append it, count it; never fails
Categorical_push(col, entry) ==
    [ok |-> TRUE,
     col |-> [cached |-> col.cached \cup {entry},
              inner |-> Append(col.inner, entry),
              len |-> col.len + 1]]

Numerical_with_capacity == [inner |-> <<>>]

Numerical_push_front(col, entry, kind) ==
    LET p == IF kind = "f32" THEN parse_f32(entry) ELSE parse_uint(entry) IN
    IF p.ok THEN [ok |-> TRUE, col |-> [inner |-> <<p.val>> \o col.inner]]
    ELSE [ok |-> FALSE, col |-> col]

\* Numerical<T>::push: self.inner.push(entry.parse()?)
Numerical_push(col, entry, kind) ==
    LET p == IF kind = "f32" THEN parse_f32(entry) ELSE parse_uint(entry) IN
    IF p.ok THEN [ok |-> TRUE, col |-> [inner |-> Append(col.inner, p.val)]]
    ELSE [ok |-> FALSE, col |-> col]

Column_push(col, entry, kind) ==
    IF kind = "cat" THEN Categorical_push(col, entry)
    ELSE Numerical_push(col, entry, kind)

\* Columns::with_capacity
Columns_with_capacity ==
    [cols |-> [i \in 1..NCols |->
                  IF ColKind[i] = "cat" THEN Categorical_with_capacity
                  ELSE Numerical_with_capacity],
     len |-> 0]

\* Columns::push: the columns are pushed in index order, each with `?`:
\* the first failure returns at once, with the earlier columns appended
RECURSIVE Columns_push_from(_, _, _)
Columns_push_from(columns, row, i) ==
    IF i > NCols
    THEN [ok |-> TRUE, columns |-> [columns EXCEPT !.len = @ + 1]]
    ELSE LET r == Column_push(columns.cols[i], row[i], ColKind[i]) IN
         IF r.ok
         THEN Columns_push_from([columns EXCEPT !.cols[i] = r.col], row, i + 1)
         ELSE [ok |-> FALSE, columns |-> columns]

Columns_push(columns, row) == Columns_push_from(columns, row, 1)

\* Columns::into_cols: one Series per column, in column order
into_cols(columns) == [i \in 1..NCols |-> columns.cols[i].inner]

\* DataFrame::new: fails unless all Series have the same length
DataFrame_new(series) ==
    IF \A i \in 1..NCols : Len(series[i]) = Len(series[1])
    THEN [ok |-> TRUE, df |-> series]
    ELSE [ok |-> FALSE]

\* the number of rows of a frame, and its rows (one tuple per row)
Height(df) == Len(df[1])
FrameRows(df) == [r \in 1..Height(df) |-> [i \in 1..NCols |-> df[i][r]]]

(***************************************************************************)
(* The file system and the batched-write sink.  A file is the sequence of  *)
(* blocks written to it: a batch per write_batch, a footer per finish.  A  *)
(* BatchedWriter<File> owns a file handle with its own offset `pos`;       *)
(* OpenOptions .create(true).write(true).truncate(true) empties the file,  *)
(* and a write past the end of the file leaves a hole before it.           *)
(* world.log records the calls made on the file system, by product id.     *)
(***************************************************************************)
Hole == [kind |-> "hole"]
Footer == [kind |-> "footer"]
Batch(df) == [kind |-> "batch", df |-> df]

write_at(f, pos, block) ==
    IF pos < Len(f) THEN [f EXCEPT ![pos + 1] = block]
    ELSE f \o [i \in 1..(pos - Len(f)) |-> Hole] \o <<block>>

Put(f, k, v) == (k :> v) @@ f

Logged(w, ev) == [w EXCEPT !.log = Append(@, ev)]

\* OpenOptions::open with create + truncate
open_truncate(w, path, id) ==
    Logged([w EXCEPT !.files = Put(@, path, <<>>)],
           [op |-> "open", path |-> path, id |-> id])

\* BatchedWriter::write_batch at the handle's offset
write_batch(w, path, id, pos, df) ==
    Logged([w EXCEPT !.files = Put(@, path, write_at(@[path], pos, Batch(df)))],
           [op |-> "write_batch", path |-> path, id |-> id, rows |-> Height(df)])

\* BatchedWriter::finish: the footer, at the handle's offset
finish(w, path, id, pos) ==
    Logged([w EXCEPT !.files = Put(@, path, write_at(@[path], pos, Footer))],
           [op |-> "finish", path |-> path, id |-> id])

\* an open or write_batch call that returns Err(io::Error): nothing is
\* written, and the fault is spent
io_error(w, path, id) ==
    Logged([w EXCEPT !.io_fault = "none"],
           [op |-> "io_error", path |-> path, id |-> id])

(***************************************************************************)
(* Product (Symbol Writer).                                                *)
(***************************************************************************)
\* Product::new; id tells the Product objects of a run apart
Product_new(path, cap, id) ==
    [path |-> path, capacity |-> cap, columns |-> Columns_with_capacity,
     writer |-> NoWriter, id |-> id]

Product_write_nonempty(p, w, by) ==
    LET cols == p.columns
        p1 == [p EXCEPT !.columns = Columns_with_capacity]
        w1 == Logged(w, [op |-> "write", path |-> p.path, id |-> p.id,
                         by |-> by, len |-> cols.len])
        fr == DataFrame_new(into_cols(cols))
    IN
    IF cols.len = 0 THEN [ok |-> TRUE, p |-> p1, w |-> w1]
    ELSE IF ~fr.ok THEN [ok |-> FALSE, p |-> p1, w |-> w1]
    ELSE IF ~p1.writer.open /\ w1.io_fault = "open"
    THEN [ok |-> FALSE, p |-> p1, w |-> io_error(w1, p.path, p.id)]
    ELSE LET w2 == IF p1.writer.open THEN w1
                   ELSE open_truncate(w1, p.path, p.id)
             pos == IF p1.writer.open THEN p1.writer.pos ELSE 0
         IN IF w2.io_fault = "write"
            THEN [ok |-> FALSE,
                  p |-> [p1 EXCEPT !.writer = SomeWriter(pos)],
                  w |-> io_error(w2, p.path, p.id)]
            ELSE [ok |-> TRUE,
                  p |-> [p1 EXCEPT !.writer = SomeWriter(pos + 1)],
                  w |-> write_batch(w2, p.path, p.id, pos, fr.df)]

Product_write_keep(p, w, by) ==
    LET cols == p.columns
        p1 == p
        w1 == Logged(w, [op |-> "write", path |-> p.path, id |-> p.id,
                         by |-> by, len |-> cols.len])
        fr == DataFrame_new(into_cols(cols))
    IN
    IF ~fr.ok THEN [ok |-> FALSE, p |-> p1, w |-> w1]
    ELSE IF ~p1.writer.open /\ w1.io_fault = "open"
    THEN [ok |-> FALSE, p |-> p1, w |-> io_error(w1, p.path, p.id)]
    ELSE LET w2 == IF p1.writer.open THEN w1
                   ELSE open_truncate(w1, p.path, p.id)
             pos == IF p1.writer.open THEN p1.writer.pos ELSE 0
         IN IF w2.io_fault = "write"
            THEN [ok |-> FALSE,
                  p |-> [p1 EXCEPT !.writer = SomeWriter(pos)],
                  w |-> io_error(w2, p.path, p.id)]
            ELSE [ok |-> TRUE,
                  p |-> [p1 EXCEPT !.writer = SomeWriter(pos + 1)],
                  w |-> write_batch(w2, p.path, p.id, pos, fr.df)]

\* Product::write: swap in fresh Columns, build the frame from the old
\* ones (`?`), open the file on the first call (`?`), write the frame as a
\* batch (`?`).
\* `by` is the caller ("push" or "drop"), kept in the log only.
Product_write(p, w, by) ==
    LET cols == p.columns
        p1 == [p EXCEPT !.columns = Columns_with_capacity]
        w1 == Logged(w, [op |-> "write", path |-> p.path, id |-> p.id,
                         by |-> by, len |-> cols.len])
        fr == DataFrame_new(into_cols(cols))
    IN
    IF ~fr.ok THEN [ok |-> FALSE, p |-> p1, w |-> w1]
    ELSE IF ~p1.writer.open /\ w1.io_fault = "open"
    THEN [ok |-> FALSE, p |-> p1, w |-> io_error(w1, p.path, p.id)]
    ELSE LET w2 == IF p1.writer.open THEN w1
                   ELSE open_truncate(w1, p.path, p.id)
             pos == IF p1.writer.open THEN p1.writer.pos ELSE 0
         IN IF w2.io_fault = "write"
            THEN [ok |-> FALSE,
                  p |-> [p1 EXCEPT !.writer = SomeWriter(pos)],
                  w |-> io_error(w2, p.path, p.id)]
            ELSE [ok |-> TRUE,
                  p |-> [p1 EXCEPT !.writer = SomeWriter(pos + 1)],
                  w |-> write_batch(w2, p.path, p.id, pos, fr.df)]

\* Drop for Product: let _ = self.write(); then finish the writer if any
Product_drop(p, w) ==
    LET r == Product_write(p, w, "drop") IN
    IF r.p.writer.open THEN finish(r.w, p.path, p.id, r.p.writer.pos)
    ELSE r.w

is_full_gt(p) == p.columns.len > p.capacity

\* Product::push: if self.columns.len >= self.capacity
is_full(p) == p.columns.len >= p.capacity

Product_push_ignore(p, w, row) ==
    LET full == is_full(p)
        r == IF full THEN Product_write(p, w, "push")
             ELSE [ok |-> TRUE, p |-> p, w |-> w]
    IN
    IF Len(row) < TagLen THEN [kind |-> "panic", p |-> r.p, w |-> r.w]
    ELSE LET t == SubSeq(row, 1, TagLen)
             n == IF t = TagQuote THEN parse_quote(row)
                  ELSE IF t = TagTrade THEN parse_trade(row)
                  ELSE [kind |-> "panic"]
         IN
         IF n.kind = "panic" THEN [kind |-> "panic", p |-> r.p, w |-> r.w]
         ELSE IF n.kind = "err" THEN [kind |-> "ok", p |-> r.p, w |-> r.w]
         ELSE LET c == Columns_push(r.p.columns, n.row) IN
              [kind |-> IF c.ok THEN "ok" ELSE "err",
               p |-> [r.p EXCEPT !.columns = c.columns],
               w |-> r.w]

\* Product::push
Product_push(p, w, row) ==
    LET full == is_full(p)
        r == IF full THEN Product_write(p, w, "push")
             ELSE [ok |-> TRUE, p |-> p, w |-> w]
    IN
    IF ~r.ok THEN [kind |-> "err", p |-> r.p, w |-> r.w]
    ELSE IF Len(row) < TagLen THEN [kind |-> "panic", p |-> r.p, w |-> r.w]
    ELSE LET t == SubSeq(row, 1, TagLen)
             n == IF t = TagQuote THEN parse_quote(row)
                  ELSE IF t = TagTrade THEN parse_trade(row)
                  ELSE [kind |-> "panic"]
         IN
         IF n.kind = "panic" THEN [kind |-> "panic", p |-> r.p, w |-> r.w]
         ELSE IF n.kind = "err" THEN [kind |-> "ok", p |-> r.p, w |-> r.w]
         ELSE LET c == Columns_push(r.p.columns, n.row) IN
              [kind |-> IF c.ok THEN "ok" ELSE "err",
               p |-> [r.p EXCEPT !.columns = c.columns],
               w |-> r.w]

(***************************************************************************)
(* Input lines.  The line source is external: the model draws each line    *)
(* from a small catalogue of line shapes; the second field of a line is    *)
(* its arrival number, so that no two lines of a stream are equal.         *)
(***************************************************************************)
RECURSIVE Join(_)
Join(fields) ==
    IF Len(fields) = 1 THEN fields[1]
    ELSE fields[1] \o <<Space>> \o Join(Tail(fields))

SymA == <<"A", "_", "1">>
SymB == <<"B", "_", "2">>

QuoteFields(tag, sym, n, f6) ==
    <<tag, <<n>>, <<"1">>, <<"2">>, <<"X">>, sym, f6, <<"1", ".", "5">>,
      <<"Y">>, <<"Z">>, <<"4">>, <<"2">>, <<"P">>, <<"Q">>, <<"R">> >>

TradeFields(sym, n) ==
    <<TagTrade, <<n>>, <<"1">>, <<"2">>, <<"X">>, sym, <<"Y">>, <<"7">>,
      <<"0", ".", "5">>, <<"Z">>, <<"a">>, <<"b">>, <<"P">> >>

Shapes == {"quoteA", "quoteB", "tradeA", "quote14", "quoteNaN", "trade7",
           "short", "tagX"}

DigitOf(k) == CHOOSE c \in Digits : DigitVal(c) = k

\* the k-th line of a stream, of the given shape
MkLine(shape, k) ==
    LET n == DigitOf(k) IN
    CASE shape = "quoteA" -> Join(QuoteFields(TagQuote, SymA, n, <<"3">>))
      [] shape = "quoteB" -> Join(QuoteFields(TagQuote, SymB, n, <<"3">>))
      [] shape = "tradeA" -> Join(TradeFields(SymA, n))
      [] shape = "quote14" ->
            Join(SubSeq(QuoteFields(TagQuote, SymA, n, <<"3">>), 1, 14))
      [] shape = "quoteNaN" -> Join(QuoteFields(TagQuote, SymA, n, <<"x">>))
      [] shape = "trade7" -> Join(SubSeq(TradeFields(SymA, n), 1, 7))
      [] shape = "short" -> Join(SubSeq(TradeFields(SymA, n), 1, 3))
      [] shape = "tagX" -> Join(QuoteFields(<<"F", "X">>, SymA, n, <<"3">>))

\* the skip-sets a job may be given (symbols as get_symbol returns them)
SkipChoices == {{}, {<<"B", "2">>}}

(***************************************************************************)
(* Stream Router: DownloadArgs::download_impl.                             *)
(***************************************************************************)
EmptyMap == [k \in {} |-> None]

\* io_fault: the I/O error, if any, that the file system is about to answer
\* with: "open" fails the next OpenOptions::open, "write" the next write_batch
World0 ==
    [files |-> EmptyMap, dir_exists |-> FALSE, log |-> <<>>, next_id |-> 1,
     io_fault |-> "none"]

Ext == <<".", "p", "a", "r", "q", "u", "e", "t">>

\* DownloadArgs::create_path: create the directory base_dir/date/ticker on
\* demand; the path of the symbol's file in it
create_path(w, symbol) ==
    [w |-> [w EXCEPT !.dir_exists = TRUE], path |-> symbol \o Ext]

\* the HashMap going out of scope: every Product in it is dropped.  The
\* Products own distinct paths, so the order of the drops does not matter.
RECURSIVE DropAll(_, _)
DropAll(prods, w) ==
    IF DOMAIN prods = {} THEN w
    ELSE LET k == CHOOSE k \in DOMAIN prods : TRUE IN
         DropAll([j \in DOMAIN prods \ {k} |-> prods[j]],
                 Product_drop(prods[k], w))

\* products.entry(symbol).or_insert(Product::new(create_path(..)?, capacity)):
\* the argument is built before or_insert runs; when the entry is occupied
\* or_insert drops it
entry_or_insert(prods, w, symbol, cap) ==
    LET cp == create_path(w, symbol)
        np == Product_new(cp.path, cap, cp.w.next_id)
        w1 == [cp.w EXCEPT !.next_id = @ + 1]
    IN IF symbol \in DOMAIN prods
       THEN [prods |-> prods, w |-> Product_drop(np, w1)]
       ELSE [prods |-> Put(prods, symbol, np), w |-> w1]

is_skipped_never(skipset, symbol) == FALSE

\* if self.skip.contains(&symbol) { continue; }
is_skipped(skipset, symbol) == symbol \in skipset

\* the I/O errors the file system may answer a flush with
IoFaults == {"none", "open", "write"}

\* the answers that the push of a row to p can meet: a fault needs a flush,
\* and a fault of open needs a writer that is not open yet
FlushAnswers(p) ==
    IF ~is_full(p) THEN {"none"}
    ELSE IF p.writer.open THEN IoFaults \ {"open"}
    ELSE IoFaults

\* one iteration of the loop over row_iter, with the return (and the drop
\* of `products`) that ends the run when the iteration fails or panics.
\* `io` is the answer of the file system to the flush this push may make.
RouteLine(shape) ==
    /\ pc = "Running"
    /\ Len(consumed) < MaxLines
    /\ LET row == MkLine(shape, Len(consumed) + 1)
           s == get_symbol(row)
       IN
       /\ consumed' = Append(consumed, row)
       /\ IF s.kind = "panic"
          THEN /\ world' = DropAll(products, world)
               /\ products' = EmptyMap
               /\ pc' = "Panicked"
               /\ out' = "get_symbol"
          ELSE IF is_skipped(skip, s.val)
          THEN UNCHANGED <<world, products, pc, out>>
          ELSE LET e == entry_or_insert(products, world, s.val, capacity) IN
               \E io \in FlushAnswers(e.prods[s.val]) :
               LET r == Product_push(e.prods[s.val],
                                     [e.w EXCEPT !.io_fault = io], row)
                   prods == [e.prods EXCEPT ![s.val] = r.p]
                   spent == io # "none" /\ r.w.io_fault = "none"
                   w1 == [r.w EXCEPT !.io_fault = "none"]
               IN IF r.kind = "ok"
                  THEN /\ products' = prods
                       /\ world' = w1
                       /\ UNCHANGED <<pc, out>>
                  ELSE /\ world' = DropAll(prods, w1)
                       /\ products' = EmptyMap
                       /\ pc' = IF r.kind = "err" THEN "Failed" ELSE "Panicked"
                       /\ out' = IF spent THEN "flush" ELSE "push"
    /\ UNCHANGED <<fan, capacity, skip, line>>

\* row_iter is exhausted: Ok(()) is returned and `products` is dropped
EndOfStream ==
    /\ pc = "Running"
    /\ world' = DropAll(products, world)
    /\ products' = EmptyMap
    /\ pc' = "Completed"
    /\ UNCHANGED <<fan, capacity, skip, consumed, line, out>>

\* row_iter yields an io::Error: `row?` returns it and `products` is dropped
LineSourceError ==
    /\ pc = "Running"
    /\ world' = DropAll(products, world)
    /\ products' = EmptyMap
    /\ pc' = "Failed"
    /\ out' = "io"
    /\ UNCHANGED <<fan, capacity, skip, consumed, line>>

Init ==
    /\ pc = "Running"
    /\ fan = Fan0
    /\ capacity \in 1..MaxCap
    /\ skip \in SkipChoices
    /\ consumed = <<>>
    /\ products = EmptyMap
    /\ world = World0
    /\ line = <<>>
    /\ out = "none"

Next ==
    \/ \E shape \in Shapes : RouteLine(shape)
    \/ EndOfStream
    \/ LineSourceError

Spec == Init /\ [][Next]_vars

(***************************************************************************)
(* One Symbol Writer driven directly, as product.rs's test_write does:     *)
(* Product::new, then push per line until a push fails, then the drop.     *)
(***************************************************************************)
TestPath == <<"t", "e", "s", "t">> \o Ext

InitWriter ==
    /\ pc = "Running"
    /\ fan = Fan0
    /\ capacity \in 1..MaxCap
    /\ skip = {}
    /\ consumed = <<>>
    /\ products = Put(EmptyMap, TestPath, Product_new(TestPath, capacity, 1))
    /\ world = [World0 EXCEPT !.dir_exists = TRUE, !.next_id = 2]
    /\ line = <<>>
    /\ out = "none"

\* product.push(&row?)?
WriterPush(shape) ==
    /\ pc = "Running"
    /\ Len(consumed) < MaxLines
    /\ LET row == MkLine(shape, Len(consumed) + 1)
           r == Product_push(products[TestPath], world, row)
       IN /\ consumed' = Append(consumed, row)
          /\ line' = row
          /\ out' = r.kind
          /\ products' = [products EXCEPT ![TestPath] = r.p]
          /\ world' = r.w
          /\ pc' = CASE r.kind = "ok" -> "Running"
                     [] r.kind = "err" -> "Failed"
                     [] r.kind = "panic" -> "Panicked"
    /\ UNCHANGED <<fan, capacity, skip>>

\* the Product goes out of scope: at the end of the lines, on the error
\* return of `?`, or while a panic unwinds
WriterDrop ==
    /\ pc \in {"Running", "Failed", "Panicked"}
    /\ world' = Product_drop(products[TestPath], world)
    /\ products' = EmptyMap
    /\ pc' = "Dropped"
    /\ UNCHANGED <<fan, capacity, skip, consumed, line, out>>

NextWriter ==
    \/ \E shape \in Shapes : WriterPush(shape)
    \/ WriterDrop

SpecWriter == InitWriter /\ [][NextWriter]_vars

(***************************************************************************)
(* The row normalizer and get_symbol as functions of a line: the line is   *)
(* drawn from all short lines over a small alphabet (a tag, then up to n    *)
(* characters) and the function is applied to it once.                     *)
(***************************************************************************)
InitFn(tags, alphabet, n) ==
    /\ pc = "Input"
    /\ fan = Fan0
    /\ capacity = 1
    /\ skip = {}
    /\ consumed = <<>>
    /\ products = EmptyMap
    /\ world = World0
    /\ \E tag \in tags, k \in 0..n :
          \E body \in [1..k -> alphabet] : line = tag \o body
    /\ out = [kind |-> "none"]

InitParse == InitFn({TagQuote, TagTrade}, {Space, "a"}, MaxBody)

ApplyQuote ==
    /\ pc = "Input"
    /\ SubSeq(line, 1, TagLen) = TagQuote
    /\ out' = parse_quote(line)
    /\ pc' = "Output"
    /\ UNCHANGED <<fan, capacity, skip, consumed, products, world, line>>

ApplyTrade ==
    /\ pc = "Input"
    /\ SubSeq(line, 1, TagLen) = TagTrade
    /\ out' = parse_trade(line)
    /\ pc' = "Output"
    /\ UNCHANGED <<fan, capacity, skip, consumed, products, world, line>>

NextParse == ApplyQuote \/ ApplyTrade

SpecParse == InitParse /\ [][NextParse]_vars

InitSymbol == InitFn({<<>>}, {Space, Underscore, "a"}, MaxSymLine)

ApplySymbol ==
    /\ pc = "Input"
    /\ out' = get_symbol(line)
    /\ pc' = "Output"
    /\ UNCHANGED <<fan, capacity, skip, consumed, products, world, line>>

NextSymbol == ApplySymbol

SpecSymbol == InitSymbol /\ [][NextSymbol]_vars

(***************************************************************************)
(* Job Fan-out: par_download.  rayon is a library: build_global builds the *)
(* one thread pool of the process and returns an error when that pool      *)
(* exists already; into_par_iter().try_for_each runs the items on the      *)
(* pool's threads while the calling thread waits for all of them; a thread *)
(* tests the shared stop flag before it takes its next item, and an item   *)
(* that returns Err raises the flag.  A panic in an item raises no flag:   *)
(* the other threads go on, and the panic is resumed in the caller when    *)
(* the iteration is over.  A job is one DownloadArgs::download run, taken  *)
(* here by its outcome only: Ok, Err, or a panic (get_symbol, push and     *)
(* parse_trade panic on some lines).                                       *)
(***************************************************************************)
NoResult == [kind |-> "none", job |-> 0]

\* a pool thread with no item in hand
IdleWorker == [job |-> 0, state |-> "idle", seen |-> FALSE]

\* ThreadPoolBuilder::new().num_threads(n_workers).build_global()
build_global(f, n_workers) ==
    IF f.pool # 0 THEN [ok |-> FALSE, pool |-> f.pool]
    ELSE [ok |-> TRUE, pool |-> n_workers]

\* try_for_each: a thread goes on to another item only while none has failed
may_take(f) == ~f.full

\* the n-th job of the current call
JobId(f, j) == <<f.calls, j>>

\* par_download up to the parallel iteration: extract the n jobs, then
\* build_global()? with n_workers = w
ParDownloadCall(n, w) ==
    /\ pc = "Fanout"
    /\ fan.phase \in {"idle", "returned"}
    /\ fan.calls < MaxCalls
    /\ LET b == build_global(fan, w) IN
       fan' = [fan EXCEPT
                 !.calls = @ + 1,
                 !.budget = w,
                 !.pool = b.pool,
                 !.jobs = [j \in 1..n |-> "pending"],
                 !.runs = [j \in 1..n |-> 0],
                 !.workers = [t \in 1..b.pool |-> IdleWorker],
                 !.full = FALSE,
                 !.panicked = FALSE,
                 !.phase = IF b.ok THEN "running" ELSE "returned",
                 !.result = IF b.ok THEN NoResult
                            ELSE [kind |-> "pool", job |-> 0]]
    /\ UNCHANGED <<pc, capacity, skip, consumed, products, world, line, out>>

\* a pool thread tests the stop flag and takes a job that no thread has
\* taken (`seen` keeps whether a job had failed by then)
WorkerTake(t, j) ==
    /\ fan.phase = "running"
    /\ fan.workers[t].state = "idle"
    /\ fan.jobs[j] = "pending"
    /\ may_take(fan)
    /\ fan' = [fan EXCEPT
                 !.jobs[j] = "taken",
                 !.workers[t] = [job |-> j, state |-> "taken",
                                 seen |-> \E k \in DOMAIN fan.jobs :
                                            fan.jobs[k] \in {"err", "panic"}]]
    /\ UNCHANGED <<pc, capacity, skip, consumed, products, world, line, out>>

\* the thread enters the closure: arg.download(base_dir) begins
WorkerStart(t) ==
    /\ fan.phase = "running"
    /\ fan.workers[t].state = "taken"
    /\ LET j == fan.workers[t].job IN
       fan' = [fan EXCEPT
                 !.jobs[j] = "running",
                 !.runs[j] = @ + 1,
                 !.workers[t].state = "running",
                 !.files = Put(@, JobId(fan, j), "partial")]
    /\ UNCHANGED <<pc, capacity, skip, consumed, products, world, line, out>>

\* arg.download(base_dir) returns Ok(()) or Err, or panics; an Err raises
\* the flag
JobEnd(t, res) ==
    /\ fan.phase = "running"
    /\ fan.workers[t].state = "running"
    /\ LET j == fan.workers[t].job IN
       fan' = [fan EXCEPT
                 !.jobs[j] = res,
                 !.workers[t] = IdleWorker,
                 !.full = @ \/ res = "err",
                 !.panicked = @ \/ res = "panic",
                 !.files = IF res = "ok" THEN Put(@, JobId(fan, j), "complete")
                           ELSE @]
    /\ UNCHANGED <<pc, capacity, skip, consumed, products, world, line, out>>

\* the jobs of the current call that ended with the given outcome
Ended(f, res) == {j \in DOMAIN f.jobs : f.jobs[j] = res}

\* what the call ends with: the panic of a job if one panicked, else the
\* error of a failed job (`?`), else Ok(())
Outcomes(f) ==
    IF Ended(f, "panic") # {}
    THEN {[kind |-> "panic", job |-> k] : k \in Ended(f, "panic")}
    ELSE IF Ended(f, "err") # {}
    THEN {[kind |-> "err", job |-> k] : k \in Ended(f, "err")}
    ELSE {[kind |-> "ok", job |-> 0]}

\* try_for_each is over once no thread holds a job and none takes one: all
\* jobs are taken, or the flag is up, or a panic has cut the items short
ParDownloadReturn ==
    /\ fan.phase = "running"
    /\ \A t \in DOMAIN fan.workers : fan.workers[t].state = "idle"
    /\ \/ ~may_take(fan)
       \/ fan.panicked
       \/ \A j \in DOMAIN fan.jobs : fan.jobs[j] # "pending"
    /\ \E r \in Outcomes(fan) :
          fan' = [fan EXCEPT !.phase = "returned", !.result = r]
    /\ UNCHANGED <<pc, capacity, skip, consumed, products, world, line, out>>

InitFan ==
    /\ pc = "Fanout"
    /\ fan = Fan0
    /\ capacity = 1
    /\ skip = {}
    /\ consumed = <<>>
    /\ products = EmptyMap
    /\ world = World0
    /\ line = <<>>
    /\ out = "none"

NextFan ==
    \/ \E n \in 1..MaxJobs, w \in 1..MaxBudget : ParDownloadCall(n, w)
    \/ \E t \in DOMAIN fan.workers, j \in DOMAIN fan.jobs : WorkerTake(t, j)
    \/ \E t \in DOMAIN fan.workers : WorkerStart(t)
    \/ \E t \in DOMAIN fan.workers, res \in {"ok", "err", "panic"} :
          JobEnd(t, res)
    \/ ParDownloadReturn

SpecFan == InitFan /\ [][NextFan]_vars

(***************************************************************************)
(* Reference notions used to state the properties.  The fields of a line   *)
(* are defined here from the positions of its spaces, independently of     *)
(* split; a row in a file is identified by its second column, the arrival  *)
(* number of its line.                                                     *)
(***************************************************************************)
SpacesOf(s) == {i \in 1..Len(s) : s[i] = Space}
NFields(s) == Cardinality(SpacesOf(s)) + 1

\* the position of the k-th space; 0 for k = 0, Len(s) + 1 past the last
Cut(s, k) ==
    IF k = 0 THEN 0
    ELSE IF k > Cardinality(SpacesOf(s)) THEN Len(s) + 1
    ELSE CHOOSE i \in SpacesOf(s) :
            Cardinality({j \in SpacesOf(s) : j < i}) = k - 1

\* the k-th field (k = 1 is the first) of the split on the space character
Field(s, k) == SubSeq(s, Cut(s, k - 1) + 1, Cut(s, k) - 1)

\* the whitespace-delimited tokens: the non-empty fields
Tokens(s) == SelectSeq([k \in 1..NFields(s) |-> Field(s, k)],
                       LAMBDA f : f # <<>>)

WithoutUnderscores(s) == SelectSeq(s, LAMBDA c : c # Underscore)

HasTag(s, tag) == Len(s) >= TagLen /\ SubSeq(s, 1, TagLen) = tag

\* the normalizer's result for a line, by its tag
Normalized(row) ==
    IF HasTag(row, TagQuote) THEN parse_quote(row)
    ELSE IF HasTag(row, TagTrade) THEN parse_trade(row)
    ELSE [kind |-> "panic"]

\* the line normalizes and every numeric field of its row parses
RowOk(row) ==
    /\ Normalized(row).kind = "ok"
    /\ Columns_push(Columns_with_capacity, Normalized(row).row).ok

PathOf(symbol) == create_path(World0, symbol).path

BlocksIn(w, path) == IF path \in DOMAIN w.files THEN w.files[path] ELSE <<>>

BlockIds(b) ==
    IF b.kind = "batch" THEN [r \in 1..Height(b.df) |-> b.df[2][r]] ELSE <<>>

\* the arrival numbers of the rows held by a file, in file order
RECURSIVE RowIds(_)
RowIds(blocks) ==
    IF blocks = <<>> THEN <<>>
    ELSE BlockIds(Head(blocks)) \o RowIds(Tail(blocks))

Range(f) == {f[i] : i \in DOMAIN f}

HasSymbol(row, symbol) ==
    get_symbol(row).kind = "ok" /\ get_symbol(row).val = symbol

\* the symbols of the lines consumed so far that are not in the skip-set
RoutedSymbols ==
    {get_symbol(consumed[i]).val :
        i \in {j \in 1..Len(consumed) :
                 /\ get_symbol(consumed[j]).kind = "ok"
                 /\ get_symbol(consumed[j]).val \notin skip}}

\* the arrival numbers of the accepted lines of a symbol
AcceptedIds(symbol) ==
    {i \in 1..Len(consumed) : HasSymbol(consumed[i], symbol) /\ RowOk(consumed[i])}

PushWrites == SelectSeq(world.log, LAMBDA e : e.op = "write" /\ e.by = "push")

(***************************************************************************)
(* Properties.                                                             *)
(***************************************************************************)

\* C1: after a run that completes normally, the file of every routed
\* symbol holds exactly the accepted lines of that symbol, each once.
C1_RowsRoundTrip ==
    pc = "Completed" =>
       \A sym \in RoutedSymbols :
          LET ids == RowIds(BlocksIn(world, PathOf(sym))) IN
          /\ Len(ids) = Cardinality(AcceptedIds(sym))
          /\ Range(ids) = AcceptedIds(sym)

\* C2: in every file the rows are in the arrival order of their lines
\* (strictly increasing arrival numbers), and every row of a symbol's file
\* comes from a line of that symbol.
C2_RowOrder ==
    \A path \in DOMAIN world.files :
       LET ids == RowIds(world.files[path]) IN
       /\ \A j \in 1..(Len(ids) - 1) : ids[j] < ids[j + 1]
       /\ \A j \in 1..Len(ids) :
             /\ ids[j] \in 1..Len(consumed)
             /\ get_symbol(consumed[ids[j]]).kind = "ok"
             /\ PathOf(get_symbol(consumed[ids[j]]).val) = path

\* a completed run whose file of some symbol holds two rows between which
\* a line of another routed symbol arrived
C2_Witness ==
    /\ pc = "Completed"
    /\ \E path \in DOMAIN world.files :
          LET ids == RowIds(world.files[path]) IN
          \E j \in 1..(Len(ids) - 1) :
             \E m \in (ids[j] + 1)..(ids[j + 1] - 1) :
                /\ RowOk(consumed[m])
                /\ get_symbol(consumed[m]).val \notin skip
                /\ PathOf(get_symbol(consumed[m]).val) # path

\* C3: for a new Symbol Writer of capacity c fed valid rows only, up to c
\* rows there is no flush inside push; at c + 1 rows there has been exactly
\* one, the file is the one batch of the first c rows and the buffer holds
\* only row c + 1; and every flush inside push, whatever the rows, was made
\* with at least c rows buffered.
C3_FlushAtCapacity ==
    /\ \A i \in 1..Len(PushWrites) : PushWrites[i].len >= capacity
    /\ (pc = "Running" /\ \A i \in 1..Len(consumed) : RowOk(consumed[i])) =>
          /\ Len(consumed) <= capacity => PushWrites = <<>>
          /\ Len(consumed) = capacity + 1 =>
                /\ Len(PushWrites) = 1
                /\ Len(BlocksIn(world, TestPath)) = 1
                /\ RowIds(BlocksIn(world, TestPath)) = [i \in 1..capacity |-> i]
                /\ products[TestPath].columns.len = 1
                /\ products[TestPath].columns.cols[2].inner = <<capacity + 1>>

C3_Witness ==
    /\ pc = "Running"
    /\ Len(consumed) = capacity + 1
    /\ \A i \in 1..Len(consumed) : RowOk(consumed[i])
    /\ Len(PushWrites) = 1
    /\ capacity > 1

\* C4: when a run ends by exhausting the lines or by returning an error,
\* the rows that each Symbol Writer held buffered are in its file, and the
\* file ends with the footer (the file system answering every call without
\* an I/O error).
C4_FlushedOnExit ==
    [][(pc = "Running" /\ pc' \in {"Completed", "Failed"} /\ out' # "flush") =>
          \A sym \in DOMAIN products :
             LET blocks == BlocksIn(world', products[sym].path) IN
             /\ Range(products[sym].columns.cols[2].inner) \subseteq Range(RowIds(blocks))
             /\ blocks # <<>>
             /\ blocks[Len(blocks)] = Footer]_vars

\* C5: the 15 column buffers of every Row Accumulator have the length of
\* its row counter.
C5_LockStep ==
    \A k \in DOMAIN products :
       \A i \in 1..NCols :
          Len(products[k].columns.cols[i].inner) = products[k].columns.len

\* a quote line without 15 fields, a trade line without 13 fields, or a
\* line whose normalized row has a numeric field that does not parse
Malformed(row) ==
    \/ HasTag(row, TagQuote) /\ NFields(row) # 15
    \/ HasTag(row, TagTrade) /\ NFields(row) # 13
    \/ /\ HasTag(row, TagQuote) \/ HasTag(row, TagTrade)
       /\ Normalized(row).kind = "ok"
       /\ ~RowOk(row)

\* C6: the push of a malformed row returns success, leaves the accumulator
\* as it was (or as the flush at the start of the push left it), and the
\* caller goes on.
C6_MalformedRowDropped ==
    [][(consumed' # consumed /\ Malformed(line')) =>
          /\ out' = "ok"
          /\ pc' = "Running"
          /\ products'[TestPath].columns \in
                {products[TestPath].columns, Columns_with_capacity}]_vars

\* C7: a symbol of the skip-set has no Symbol Writer and no file, and no
\* call on the file system names its path.
C7_SkippedSymbolUntouched ==
    \A sym \in skip :
       /\ sym \notin DOMAIN products
       /\ PathOf(sym) \notin DOMAIN world.files
       /\ \A i \in 1..Len(world.log) : world.log[i].path # PathOf(sym)

\* a completed run that consumed two or more lines of a skipped symbol and
\* wrote the file of another symbol
C7_Witness ==
    /\ pc = "Completed"
    /\ \E sym \in skip :
          Cardinality({i \in 1..Len(consumed) : HasSymbol(consumed[i], sym)}) >= 2
    /\ DOMAIN world.files # {}

\* C8 as stated: every trade line with 13 or more fields normalizes to 15
\* fields, "0" at indices 10 and 11, and (orig[8], orig[6], orig[7]) at
\* indices 6, 7, 8 (0-based; Field and the row count from 1).
C8_TradeAsStated ==
    (pc = "Output" /\ HasTag(line, TagTrade) /\ NFields(line) >= 13) =>
       /\ out.kind = "ok"
       /\ Len(out.row) = 15
       /\ out.row[11] = <<"0">> /\ out.row[12] = <<"0">>
       /\ <<out.row[7], out.row[8], out.row[9]>>
             = <<Field(line, 9), Field(line, 7), Field(line, 8)>>

\* C8 amended: every trade line with exactly 13 fields normalizes to 15
\* fields, "0" at indices 10 and 11, and (orig[7], orig[8], orig[6]) at
\* indices 6, 7, 8.
C8_TradeLayout ==
    (pc = "Output" /\ HasTag(line, TagTrade) /\ NFields(line) = 13) =>
       /\ out.kind = "ok"
       /\ Len(out.row) = 15
       /\ out.row[11] = <<"0">> /\ out.row[12] = <<"0">>
       /\ <<out.row[7], out.row[8], out.row[9]>>
             = <<Field(line, 8), Field(line, 9), Field(line, 7)>>

\* a normalized 13-field trade line whose fields 6, 7, 8 are all different
C8_Witness ==
    /\ pc = "Output" /\ HasTag(line, TagTrade) /\ NFields(line) = 13
    /\ out.kind = "ok"
    /\ Cardinality({Field(line, 7), Field(line, 8), Field(line, 9)}) = 3

\* C9: a quote line normalizes exactly when it has 15 fields, to its
\* fields in order; otherwise the normalizer returns an error.
C9_QuoteIsSplit ==
    (pc = "Output" /\ HasTag(line, TagQuote)) =>
       /\ out.kind = "ok" <=> NFields(line) = 15
       /\ out.kind = "ok" =>
             out.row = [k \in 1..15 |-> Field(line, k)]
       /\ out.kind # "ok" => out.kind = "err"

\* a normalized quote line with a non-empty last field
C9_Witness ==
    /\ pc = "Output" /\ HasTag(line, TagQuote)
    /\ out.kind = "ok"
    /\ out.row[15] # <<>>

\* C10 as stated: for a line with 6 or more whitespace-delimited tokens
\* the symbol is the 6th token without its underscores.
C10_SymbolAsStated ==
    (pc = "Output" /\ Len(Tokens(line)) >= 6) =>
       /\ out.kind = "ok"
       /\ out.val = WithoutUnderscores(Tokens(line)[6])

\* C10 amended: for a line with 6 or more fields in its split on the
\* single space character (empty fields included) the symbol is the 6th
\* field without its underscores.
C10_SymbolIsSixthField ==
    (pc = "Output" /\ NFields(line) >= 6) =>
       /\ out.kind = "ok"
       /\ out.val = WithoutUnderscores(Field(line, 6))

\* a symbol taken from a 6th field that holds an underscore
C10_Witness ==
    /\ pc = "Output" /\ NFields(line) >= 6
    /\ out.kind = "ok"
    /\ out.val # <<>>
    /\ out.val # Field(line, 6)

\* C11: a line with fewer than six whitespace-delimited tokens stops the
\* router with an error that the run returns: the run ends Failed with the
\* error of get_symbol, and it never ends by a panic at get_symbol.
C11_ShortLineIsError ==
    \A i \in 1..Len(consumed) :
       Len(Tokens(consumed[i])) < SymSkip + 1 =>
          /\ i = Len(consumed)
          /\ pc = "Failed"
          /\ out = "get_symbol"

\* C18: a line pushed to a Symbol Writer whose two-character tag is neither
\* the quote tag nor the trade tag, or that is shorter than two characters,
\* makes push return an error outcome; push does not panic on it.
C18_UnknownTagIsError ==
    (/\ consumed # <<>>
     /\ line = consumed[Len(consumed)]
     /\ ~HasTag(line, TagQuote)
     /\ ~HasTag(line, TagTrade)) => out = "err"

\* C15: after a run that completes normally, the output file of every
\* symbol that appeared in the stream and is not skipped exists, also when
\* no row or exactly one row of the symbol was accumulated.
C15_FileForEverySymbol ==
    pc = "Completed" =>
       \A sym \in RoutedSymbols : PathOf(sym) \in DOMAIN world.files

\* a completed run with a symbol all of whose lines were dropped as
\* malformed and a symbol with exactly one accepted line; both files exist
C15_Witness ==
    /\ pc = "Completed"
    /\ \E s0 \in RoutedSymbols, s1 \in RoutedSymbols :
          /\ AcceptedIds(s0) = {}
          /\ \A i \in 1..Len(consumed) :
                HasSymbol(consumed[i], s0) => Normalized(consumed[i]).kind = "err"
          /\ Cardinality(AcceptedIds(s1)) = 1
          /\ PathOf(s0) \in DOMAIN world.files
          /\ RowIds(world.files[PathOf(s0)]) = <<>>
          /\ PathOf(s1) \in DOMAIN world.files

\* the Product objects that opened, wrote a batch to or finished a path
WritersOf(path) ==
    {world.log[i].id :
        i \in {j \in 1..Len(world.log) :
                 /\ world.log[j].op \in {"open", "write_batch", "finish"}
                 /\ world.log[j].path = path}}

OpensOf(path) ==
    SelectSeq(world.log, LAMBDA e : e.op = "open" /\ e.path = path)

\* C16: within a job every output path is touched by one Symbol Writer
\* only, the one registered for the symbol, and is opened (created and
\* truncated) at most once: no other writer object opens or finalizes it.
C16_OneWriterPerPath ==
    \A path \in DOMAIN world.files :
       /\ Cardinality(WritersOf(path)) <= 1
       /\ Len(OpensOf(path)) <= 1

\* the accumulator that a push of the line leaves when it starts from a
\* fresh, empty one
AfterFresh(row) ==
    IF Normalized(row).kind = "ok"
    THEN Columns_push(Columns_with_capacity, Normalized(row).row).columns
    ELSE Columns_with_capacity

BufferedWithinCapacity ==
    \A path \in DOMAIN products :
       /\ products[path].columns.len \in 0..products[path].capacity
       /\ \A k \in 1..NCols :
             Len(products[path].columns.cols[k].inner)
                <= products[path].capacity

FlushResets ==
    (/\ pc = "Running"
     /\ pc' # "Dropped"
     /\ Len(world'.log) > Len(world.log))
       => products'[TestPath].columns = AfterFresh(line')

\* C20: for a Symbol Writer of capacity c >= 1, after any sequence of
\* pushes the number of buffered rows is between 0 and c, and every flush
\* made by a push replaces the accumulator by a fresh empty one (no rows,
\* empty interning dictionaries) before the pushed row is appended.
C20_BufferBounded == []BufferedWithinCapacity /\ [][FlushResets]_vars

\* a writer that has flushed, then accepted one row of another symbol: one
\* buffered row, and a dictionary that holds the new symbol only
C20_Witness ==
    /\ pc = "Running"
    /\ Len(PushWrites) >= 1
    /\ TestPath \in DOMAIN products
    /\ products[TestPath].columns.len = 1
    /\ products[TestPath].columns.cols[SymSkip + 1].cached = {SymB}
    /\ \E i \in 1..Len(consumed) : Field(consumed[i], SymSkip + 1) = SymA

IoErrors == SelectSeq(world.log, LAMBDA e : e.op = "io_error")

\* C17 as stated: after a flush of one symbol's writer has failed with an
\* I/O error the router is not aborted: it goes on routing the later lines
\* of the other symbols, or completes.
C17_AsStated == IoErrors # <<>> => pc \in {"Running", "Completed"}

\* C17: when the flush made by a push fails with an I/O error, the job is
\* aborted with that error: the router returns it without routing another
\* line, and the writers of the other symbols are dropped, which puts the
\* rows they held buffered in their files and ends the files with a footer.
C17_FlushErrorAborts ==
    [][(pc = "Running" /\ Len(IoErrors') > Len(IoErrors)) =>
          /\ pc' = "Failed"
          /\ out' = "flush"
          /\ products' = EmptyMap
          /\ LET failed == get_symbol(consumed'[Len(consumed')]).val IN
             \A sym \in DOMAIN products \ {failed} :
                LET blocks == BlocksIn(world', products[sym].path) IN
                /\ Range(products[sym].columns.cols[2].inner)
                      \subseteq Range(RowIds(blocks))
                /\ blocks # <<>>
                /\ blocks[Len(blocks)] = Footer]_vars

\* a job aborted by a failed flush of one symbol, with the file of another
\* symbol holding a row
C17_Witness ==
    /\ pc = "Failed"
    /\ out = "flush"
    /\ LET failed == get_symbol(consumed[Len(consumed)]).val IN
       \E sym \in RoutedSymbols \ {failed} :
          RowIds(BlocksIn(world, PathOf(sym))) # <<>>

\* the jobs of the current call whose run has failed
FailedJobs == Ended(fan, "err") \cup Ended(fan, "panic")

\* C12: when a job of a par_download call fails, the call returns the
\* error of a failed job, no thread takes a job once a job has failed (so
\* a job not yet started then is never started), and the output of every
\* job that completed stays as the job left it.
C12_FailFast ==
    /\ (fan.phase = "returned" /\ FailedJobs # {}) =>
          fan.result.kind = "err" /\ fan.result.job \in FailedJobs
    /\ \A t \in DOMAIN fan.workers :
          fan.workers[t].state # "idle" => ~fan.workers[t].seen
    /\ \A j \in DOMAIN fan.jobs :
          fan.jobs[j] = "ok" => fan.files[JobId(fan, j)] = "complete"

\* the jobs of the current call that are being executed
Executing == {t \in DOMAIN fan.workers : fan.workers[t].state = "running"}

\* C13: during a par_download call with n_workers = w at most w jobs are
\* executing, no two threads execute the same job, and when the call is
\* over without a failed job every job has been executed exactly once.
C13_BoundedExactlyOnce ==
    /\ Cardinality(Executing) <= fan.budget
    /\ \A t1 \in Executing, t2 \in Executing :
          fan.workers[t1].job = fan.workers[t2].job => t1 = t2
    /\ (fan.phase = "returned" /\ FailedJobs = {}) =>
          \A j \in DOMAIN fan.jobs : fan.runs[j] = 1

\* C19: every par_download call of a process runs its jobs on a pool of
\* its own n_workers threads, whatever the earlier calls were given: no
\* call ends with the error of the pool builder.
C19_CallsIndependent ==
    fan.phase \in {"running", "returned"} =>
       /\ fan.result.kind # "pool"
       /\ fan.pool = fan.budget

====
